---- MODULE Spec2Model ----
(***************************************************************************)
(* Model of the context compression engine of ContextCompressionSystem:   *)
(*   backend/compress_tf_idf.py  TextCompressor.compress_by_ratio          *)
(*   backend/compressor.py       ContextCompressor (orchestrator, history  *)
(*                               compressor, fallback packer)              *)
(*   backend/main.py             the /compress request handler and the    *)
(*                               append operations on context.xml          *)
(*                                                                         *)
(* Abstractions used throughout:                                           *)
(*  - a text is represented by what the code measures of it: its          *)
(*    estimated token cost (count_tokens), its character length, its      *)
(*    sentences.  Costs are small integers (a scaled token unit).          *)
(*  - ratios are percentages (50 stands for 0.5); int(x * ratio) is       *)
(*    (x * pct) \div 100.                                                  *)
(*  - list indices are 0-based as in the source; the element with index i *)
(*    of a list is the (i+1)-th element of the TLA+ sequence.              *)
(***************************************************************************)
EXTENDS Integers, Sequences, FiniteSets, TLC

VARIABLES
    sIn,        \* summarizer: the input (text, compression_ratio, vectorizer outcome)
    sOut,       \* summarizer: the dict returned by compress_by_ratio
    hIn,        \* history compressor: the input (form, history, preserve_tokens, ratio)
    hOut,       \* history compressor: the dict returned
    pIn,        \* fallback packer: the input (lines, max_tokens, target_modules)
    pOut,       \* fallback packer: the text returned, or the exception
    aIn,        \* extractive stage: the input (document, ratio, whether it parses)
    aOut,       \* extractive stage: the document returned
    fText,      \* context.xml as a text: the sequence of its markup tokens (<<>>: no file)
    fTree,      \* the element tree ET.fromstring built from the text last read
    ctxFile,    \* service: the user's context.xml
    beforeFile, \* service: the user's before_compressed.xml
    pc,         \* service: position inside the /compress handler
    req,        \* service: the request being handled
    content,    \* service: full_context_content / compress_content's argument
    processed,  \* service: processed_content of compress_content
    calls,      \* service: outbound collaborator calls made by this request, in order
    stages,     \* service: the stages this request has run, in order
    returned,   \* service: the value compress_content returned
    resp,       \* service: the outcome of the last finished request
    now         \* service: the clock behind datetime.now()

vars == <<sIn, sOut, hIn, hOut, pIn, pOut, aIn, aOut, fText, fTree, ctxFile, beforeFile, pc, req, content,
          processed, calls, stages, returned, resp, now>>

sumVars  == <<sIn, sOut>>
histVars == <<hIn, hOut>>
packVars == <<pIn, pOut>>
extrVars == <<aIn, aOut>>
docVars  == <<fText, fTree>>
svcVars  == <<ctxFile, beforeFile, pc, req, content, processed, calls,
              stages, returned, resp, now>>

(***************************************************************************)
(* Bounds of the model.                                                    *)
(***************************************************************************)
MaxSents    == 4    \* chunks of a summarizer input text
MaxHist     == 4    \* entries of a history compressor input
MaxRequests == 3    \* /compress requests in one behaviour of the service

(***************************************************************************)
(* Generic helpers.                                                        *)
(***************************************************************************)
Max(a, b) == IF a >= b THEN a ELSE b
Min(a, b) == IF a <= b THEN a ELSE b

RECURSIVE SumSeq(_)
SumSeq(s) == IF s = <<>> THEN 0 ELSE Head(s) + SumSeq(Tail(s))

\* all sequences over S of length 0..n
SeqsUpTo(S, n) == UNION {[1..k -> S] : k \in 0..n}

\* s[:k] and s[k:] of Python, k a 0-based index (k may exceed Len(s))
Take(s, k) == SubSeq(s, 1, Min(k, Len(s)))
Drop(s, k) == SubSeq(s, Min(k, Len(s)) + 1, Len(s))

\* int(x * ratio) with the ratio given in percent
IntMul(x, pct) == (x * pct) \div 100

(***************************************************************************)
(* Extractive summarizer: compress_tf_idf.py                               *)
(*                                                                         *)
(* A text is a sequence of chunks.  A chunk is either blank (whitespace or *)
(* bare delimiters, len = 0) or a sentence, of which the model keeps the   *)
(* character length and the score the vectorizer gives it (the row sum of  *)
(* its TF-IDF weights; 0 for a sentence without any indexable term).       *)
(***************************************************************************)
SentLens   == {20, 40}
SentScores == {0, 1, 2}
Blank      == [len |-> 0, score |-> 0]
SentenceSet == [len : SentLens, score : SentScores]
Chunks     == SentenceSet \cup {Blank}
SumRatios  == {10, 50, 60, 100}

NoResult == [message |-> "none"]

\* preprocess_text: split into sentences, strip, drop the empty pieces
PreprocessSentences(text) == SelectSeq(text, LAMBDA c : c.len > 0)

\* target_sentences = max(1, int(len(sentences) * compression_ratio))
TargetSentences(n, pct) == Max(1, IntMul(n, pct))

RankDescLastFirst(keys, i) ==
    Cardinality({j \in 1..Len(keys) :
                    keys[j] > keys[i] \/ (keys[j] = keys[i] /\ j > i)})

\* list.sort(key=..., reverse=True): stable, so equal keys keep input order.
\* keys is the sequence of sort keys; the result is the sequence of positions.
RankDesc(keys, i) ==
    Cardinality({j \in 1..Len(keys) :
                    keys[j] > keys[i] \/ (keys[j] = keys[i] /\ j < i)})
SortDesc(keys) ==
    [p \in 1..Len(keys) |-> CHOOSE i \in 1..Len(keys) : RankDesc(keys, i) = p - 1]

\* sorted(list of distinct ints)
SortedAsc(idx) ==
    [p \in 1..Len(idx) |->
        CHOOSE v \in {idx[k] : k \in 1..Len(idx)} :
            Cardinality({k \in 1..Len(idx) : idx[k] < v}) = p - 1]

\* selected_indices = sorted([idx for idx, _ in scored[:target]])
SelectedIndicesUnsorted(keys, target) == Take(SortDesc(keys), target)
SelectedIndices(keys, target) == SortedAsc(Take(SortDesc(keys), target))

\* TfidfVectorizer.fit_transform raises on an empty vocabulary (no sentence
\* has an indexable term) and may fail for any other reason (fails).
VectorizerRaises(sentences, fails) ==
    fails \/ \A i \in 1..Len(sentences) : sentences[i].score = 0

\* lines 107-147 of compress_by_ratio: the selection once sentences exist
CompressSentences(text, pct, fails) ==
    LET sentences == PreprocessSentences(text)
        target    == TargetSentences(Len(sentences), pct)
        raises    == VectorizerRaises(sentences, fails)
        keys      == IF raises
                     THEN [i \in 1..Len(sentences) |-> sentences[i].len]
                     ELSE [i \in 1..Len(sentences) |-> sentences[i].score]
        selected  == SelectedIndices(keys, target)
    IN  [compressed_text   |-> [k \in 1..Len(selected) |-> sentences[selected[k]]],
         compression_ratio |-> [num |-> Len(selected), den |-> Max(1, Len(sentences))],
         sentences_kept    |-> Len(selected),
         sentences_total   |-> Len(sentences),
         vectorized        |-> TRUE,
         path              |-> IF raises THEN "length" ELSE "tfidf"]

CompressByRatioUnguarded(text, pct, fails) == CompressSentences(text, pct, fails)

\* compress_by_ratio.  vectorized and path are trace fields: whether
\* fit_transform was called, and which branch selected the sentences.
CompressByRatio(text, pct, fails) ==
    LET sentences == PreprocessSentences(text)
    IN  IF sentences = <<>>
        THEN [compressed_text   |-> text,
              compression_ratio |-> [num |-> 0, den |-> 1],
              sentences_kept    |-> 0,
              sentences_total   |-> 0,
              vectorized        |-> FALSE,
              path              |-> "empty"]
        ELSE CompressSentences(text, pct, fails)

(***************************************************************************)
(* Document model.  context.xml is a text; the model keeps of it the       *)
(* top-level sections in document order and the entries of each section.   *)
(*   decl   : the text starts with the <?xml ...?> declaration             *)
(*   secs   : names of the children of <context>, in order (<<>> for a     *)
(*            text that is no markup at all)                               *)
(*   bg     : <content> entries            [cost, ts]                      *)
(*   plan   : <plan_iteration> entries     [number, cost, ts]              *)
(*   agents : <agent> entries              [name, text, ts]                *)
(*   hist   : <entry> entries              [role, cost, ts]                *)
(* ts = 0 stands for an entry without a timestamp attribute.               *)
(***************************************************************************)
SectionOrder == <<"BACKGROUND", "PLAN", "SUB_APP", "HISTORY">>
SectionNames == {"BACKGROUND", "PLAN", "SUB_APP", "HISTORY"}
Roles        == {"system", "user", "assistant"}
EntryCosts   == {1, 2}

\* initialize_context_file: four empty sections under <context>
InitialDoc ==
    [decl |-> TRUE, secs |-> SectionOrder,
     bg |-> <<>>, plan |-> <<>>, agents |-> <<>>, hist |-> <<>>]

\* count_tokens of a summarizer text (one unit per 20 characters)
TextTokens(text) == SumSeq([i \in 1..Len(text) |-> text[i].len \div 20])
TextLen(text)    == SumSeq([i \in 1..Len(text) |-> text[i].len])

TsTokens(e) == IF e.ts > 0 THEN 1 ELSE 0

\* count_tokens of a whole document: markup of the declaration and of the
\* sections, plus the entries (message, attributes, timestamp)
CountTokens(d) ==
      (IF d.decl THEN 1 ELSE 0) + Len(d.secs)
    + SumSeq([i \in 1..Len(d.bg)     |-> d.bg[i].cost + TsTokens(d.bg[i])])
    + SumSeq([i \in 1..Len(d.plan)   |-> d.plan[i].cost + TsTokens(d.plan[i])])
    + SumSeq([i \in 1..Len(d.agents) |-> TextTokens(d.agents[i].text) + TsTokens(d.agents[i])])
    + SumSeq([i \in 1..Len(d.hist)   |-> d.hist[i].cost + TsTokens(d.hist[i])])

\* _is_xml_content: the text starts with <?xml or <context>, or holds an element
IsXmlContent(d) == d.decl \/ d.secs # <<>>

(***************************************************************************)
(* Sectional history compressor: compressor.py                             *)
(* A JSON item is [role, cost]: cost is count_tokens(json.dumps(item)).    *)
(***************************************************************************)
ItemTokens(it) == it.cost

\* count_tokens(json.dumps(list)): the items, the brackets and the separators
JsonTokens(data) ==
    SumSeq([i \in 1..Len(data) |-> ItemTokens(data[i])]) + Max(1, Len(data))

\* lines 632-643: scan from the back while the running sum stays <= preserve;
\* i is the number of items not visited yet, used is preserve_tokens_used
RECURSIVE PreserveItems(_, _, _, _)
PreserveItems(data, i, used, preserve) ==
    IF i = 0 THEN 0
    ELSE IF used + ItemTokens(data[i]) <= preserve
         THEN 1 + PreserveItems(data, i - 1, used + ItemTokens(data[i]), preserve)
         ELSE 0

TentativeSplitOneMore(data, preserve) ==
    Max(0, Len(data) - PreserveItems(data, Len(data), 0, preserve) - 1)

\* line 646: tentative_split_index
TentativeSplit(data, preserve) ==
    Len(data) - PreserveItems(data, Len(data), 0, preserve)

IsUser(data, i) == data[i + 1].role = "user"

\* lines 649-656: first user message at or after the tentative split
ForwardSplit(data, tentative) ==
    LET users == {i \in tentative..(Len(data) - 1) : IsUser(data, i)}
    IN  IF users = {} THEN tentative
        ELSE CHOOSE i \in users : \A j \in users : i <= j

FinalSplitForwardOnly(data, tentative) == ForwardSplit(data, tentative)

\* lines 649-666: final_split_index
FinalSplit(data, tentative) ==
    LET fwd   == ForwardSplit(data, tentative)
        users == {i \in 0..(tentative - 1) : IsUser(data, i)}
    IN  IF fwd = tentative /\ tentative > 0 /\ users # {}
        THEN CHOOSE i \in users : \A j \in users : i >= j
        ELSE fwd

KeepItemsCeil(n, pct) == Max(1, (n * pct + 99) \div 100)

\* lines 697 and 722: keep_items = max(1, int(len(items_to_compress) * ratio))
KeepItems(n, pct) == Max(1, IntMul(n, pct))

One == [num |-> 1, den |-> 1]

CompressJsonHistoryKeepsHead(data, preserve, pct, llm, summary) ==
    LET original  == JsonTokens(data)
        tentative == TentativeSplit(data, preserve)
        final     == FinalSplit(data, tentative)
        toCompress  == Take(data, final)
        toPreserve  == Drop(data, final)
        truncated   == Take(toCompress, KeepItems(Len(toCompress), pct))
        compressed  == IF llm = "ok"
                       THEN <<[role |-> "system", cost |-> summary]>> \o truncated
                       ELSE truncated
        finalItems  == compressed \o toPreserve
    IN  IF original <= preserve
        THEN [compressed_content |-> data, original_tokens |-> original,
              compressed_tokens |-> original, compression_ratio |-> One,
              success |-> "absent", message |-> "below threshold",
              tentative |-> -1, final |-> -1, calls |-> 0, path |-> "noop"]
        ELSE IF toCompress = <<>>
        THEN [compressed_content |-> data, original_tokens |-> original,
              compressed_tokens |-> original, compression_ratio |-> One,
              success |-> "absent", message |-> "no items to compress",
              tentative |-> tentative, final |-> final, calls |-> 0,
              path |-> "noop"]
        ELSE [compressed_content |-> finalItems, original_tokens |-> original,
              compressed_tokens |-> JsonTokens(finalItems),
              compression_ratio |->
                  [num |-> original - JsonTokens(finalItems), den |-> original],
              success |-> "true", message |-> "completed",
              tentative |-> tentative, final |-> final,
              calls |-> IF llm = "none" THEN 0 ELSE 1,
              path |-> IF llm = "ok" THEN "summary" ELSE "truncate"]

\* _compress_json_history on a JSON list of role/message items.
\*   llm     : "none" (self.client is None), "ok", "fail" (the call raises)
\*   summary : cost of the item built from the collaborator's answer
\* Trace fields (not keys of the returned dict): tentative, final, calls, path.
CompressJsonHistory(data, preserve, pct, llm, summary) ==
    LET original  == JsonTokens(data)
        tentative == TentativeSplit(data, preserve)
        final     == FinalSplit(data, tentative)
        toCompress  == Take(data, final)
        toPreserve  == Drop(data, final)
        truncated   == Take(toCompress, KeepItems(Len(toCompress), pct))
        compressed  == IF llm = "ok"
                       THEN <<[role |-> "system", cost |-> summary]>>
                       ELSE truncated
        finalItems  == compressed \o toPreserve
    IN  IF original <= preserve
        THEN [compressed_content |-> data, original_tokens |-> original,
              compressed_tokens |-> original, compression_ratio |-> One,
              success |-> "absent", message |-> "below threshold",
              tentative |-> -1, final |-> -1, calls |-> 0, path |-> "noop"]
        ELSE IF toCompress = <<>>
        THEN [compressed_content |-> data, original_tokens |-> original,
              compressed_tokens |-> original, compression_ratio |-> One,
              success |-> "absent", message |-> "no items to compress",
              tentative |-> tentative, final |-> final, calls |-> 0,
              path |-> "noop"]
        ELSE [compressed_content |-> finalItems, original_tokens |-> original,
              compressed_tokens |-> JsonTokens(finalItems),
              compression_ratio |->
                  [num |-> original - JsonTokens(finalItems), den |-> original],
              success |-> "true", message |-> "completed",
              tentative |-> tentative, final |-> final,
              calls |-> IF llm = "none" THEN 0 ELSE 1,
              path |-> IF llm = "ok" THEN "summary" ELSE "truncate"]

\* line 561: the role/message projection of the <entry> elements
ProjectEntries(hist) ==
    [i \in 1..Len(hist) |-> [role |-> hist[i].role, cost |-> hist[i].cost]]

\* lines 583-587: <entry role="{role}">{message}</entry>
RenderEntries(items) ==
    [i \in 1..Len(items) |->
        [role |-> items[i].role, cost |-> items[i].cost, ts |-> 0]]

\* lines 543-550 and 592: the HISTORY element is cut out and put back in
\* front of </context>, that is after the other sections
MoveHistoryLast(secs) ==
    SelectSeq(secs, LAMBDA x : x # "HISTORY") \o <<"HISTORY">>

CompressXmlHistoryDropsPlan(d, preserve, pct, llm, summary) ==
    LET r == CompressJsonHistory(ProjectEntries(d.hist), preserve, pct, llm, summary)
        final == [d EXCEPT !.hist = RenderEntries(r.compressed_content),
                           !.plan = <<>>,
                           !.secs = MoveHistoryLast(d.secs)]
    IN  IF d.hist = <<>>
        THEN [compressed_content |-> d, original_tokens |-> CountTokens(d),
              compressed_tokens |-> CountTokens(d), compression_ratio |-> One,
              success |-> "absent", message |-> "no entries",
              tentative |-> -1, final |-> -1, calls |-> 0, path |-> "noop"]
        ELSE [r EXCEPT !.compressed_content = final,
                       !.compressed_tokens  = CountTokens(final),
                       !.original_tokens    = CountTokens(d)]

\* _compress_xml_history on a document whose HISTORY section is d.hist
CompressXmlHistory(d, preserve, pct, llm, summary) ==
    LET r == CompressJsonHistory(ProjectEntries(d.hist), preserve, pct, llm, summary)
        final == [d EXCEPT !.hist = RenderEntries(r.compressed_content),
                           !.secs = MoveHistoryLast(d.secs)]
    IN  IF d.hist = <<>>
        THEN [compressed_content |-> d, original_tokens |-> CountTokens(d),
              compressed_tokens |-> CountTokens(d), compression_ratio |-> One,
              success |-> "absent", message |-> "no entries",
              tentative |-> -1, final |-> -1, calls |-> 0, path |-> "noop"]
        ELSE [r EXCEPT !.compressed_content = final,
                       !.compressed_tokens  = CountTokens(final),
                       !.original_tokens    = CountTokens(d)]

(***************************************************************************)
(* State of the service before the first request.                          *)
(***************************************************************************)
NoDoc     == [absent |-> TRUE]
NoRequest == [section |-> "none"]
NoText    == <<>>

SvcInit ==
    /\ ctxFile = NoDoc
    /\ beforeFile = NoDoc
    /\ pc = "idle"
    /\ req = NoRequest
    /\ content = NoDoc
    /\ processed = NoDoc
    /\ calls = <<>>
    /\ stages = <<>>
    /\ returned = NoDoc
    /\ resp = [status |-> "none"]
    /\ now = 0
    /\ fText = NoText
    /\ fTree = [message |-> "none"]

(***************************************************************************)
(* Specification SpecSum: compress_by_ratio applied to bounded inputs.     *)
(***************************************************************************)
SumInputs ==
    [text : SeqsUpTo(Chunks, MaxSents), ratio : SumRatios, fails : BOOLEAN]

InitSum ==
    /\ sIn \in SumInputs
    /\ sOut = NoResult
    /\ hIn = NoResult /\ hOut = NoResult
    /\ pIn = NoResult /\ pOut = NoResult
    /\ aIn = NoResult /\ aOut = NoResult
    /\ SvcInit

Summarize ==
    /\ sOut = NoResult
    /\ sOut' = CompressByRatio(sIn.text, sIn.ratio, sIn.fails)
    /\ UNCHANGED <<sIn, histVars, svcVars, packVars, extrVars, docVars>>

NextSum == Summarize
SpecSum == InitSum /\ [][NextSum]_vars

(***************************************************************************)
(* Specification SpecHist: the history compressor applied to bounded       *)
(* histories, given as a role/message list and as the HISTORY section of   *)
(* a document.                                                             *)
(***************************************************************************)
PreserveSet == {1, 3, 6}
HistRatios  == {30, 50, 100}
LlmOutcomes == {"none", "ok", "fail"}

\* histories of n entries; either no entry carries a timestamp (entries
\* re-rendered by an earlier compression) or all do (entries as appended)
Histories(n) ==
    {[i \in 1..n |-> [role |-> r[i], cost |-> c[i], ts |-> t]] :
        r \in [1..n -> Roles], c \in [1..n -> EntryCosts], t \in {0, 1}}

HistInputs ==
    [hist : UNION {Histories(n) : n \in 0..MaxHist},
     preserve : PreserveSet, ratio : HistRatios]

InitHist ==
    /\ hIn \in HistInputs
    /\ hOut = NoResult
    /\ sIn = NoResult /\ sOut = NoResult
    /\ pIn = NoResult /\ pOut = NoResult
    /\ aIn = NoResult /\ aOut = NoResult
    /\ SvcInit

\* the history is passed as a JSON list
CompressList ==
    /\ hOut = NoResult
    /\ \E llm \in LlmOutcomes :
          hOut' = [form |-> "list", llm |-> llm,
                   result |-> CompressJsonHistory(hIn.hist, hIn.preserve,
                                                  hIn.ratio, llm, 1)]
    /\ UNCHANGED <<hIn, sumVars, svcVars, packVars, extrVars, docVars>>

\* the history is the HISTORY section of a document
CompressMarkup ==
    /\ hOut = NoResult
    /\ \E llm \in LlmOutcomes :
          hOut' = [form |-> "markup", llm |-> llm,
                   result |-> CompressXmlHistory([InitialDoc EXCEPT !.hist = hIn.hist],
                                                 hIn.preserve, hIn.ratio, llm, 1)]
    /\ UNCHANGED <<hIn, sumVars, svcVars, packVars, extrVars, docVars>>

NextHist == CompressList \/ CompressMarkup
SpecHist == InitHist /\ [][NextHist]_vars

(***************************************************************************)
(* Claims about the extractive summarizer (SpecSum).                       *)
(***************************************************************************)
SentenceCount(text) == Cardinality({i \in 1..Len(text) : text[i] # Blank})

\* max(1, floor(n * r)) stated without the division of the code
ExpectedKept(n, pct) ==
    LET fl == CHOOSE k \in 0..n : 100 * k <= n * pct /\ 100 * (k + 1) > n * pct
    IN  IF fl = 0 THEN 1 ELSE fl

IsSubsequence(out, in) ==
    \E f \in [1..Len(out) -> 1..Len(in)] :
        /\ \A k \in 1..Len(out) : out[k] = in[f[k]]
        /\ \A k \in 1..(Len(out) - 1) : f[k] < f[k + 1]

\* C6: for every input of n >= 1 sentences and every ratio in (0,1],
\* compress_by_ratio keeps exactly max(1, floor(n*r)) sentences and the kept
\* sentences are a subsequence of the input in original order, on the TF-IDF
\* path and on the length-based fallback path; one sentence is returned as is.
C6_KeepsTargetInOrder ==
    (sOut # NoResult /\ SentenceCount(sIn.text) >= 1) =>
        LET n == SentenceCount(sIn.text)
        IN  /\ sOut.sentences_kept = ExpectedKept(n, sIn.ratio)
            /\ Len(sOut.compressed_text) = ExpectedKept(n, sIn.ratio)
            /\ sOut.sentences_total = n
            /\ IsSubsequence(sOut.compressed_text, sIn.text)
            /\ \A k \in 1..Len(sOut.compressed_text) : sOut.compressed_text[k] # Blank
            /\ sOut.path \in {"tfidf", "length"}

\* four sentences, two kept on the TF-IDF path, and not simply the first two
C6_Witness ==
    /\ sOut # NoResult
    /\ sOut.path = "tfidf"
    /\ sOut.sentences_total = 4
    /\ sOut.sentences_kept = 2
    /\ sOut.compressed_text # Take(PreprocessSentences(sIn.text), 2)

\* C7: when segmentation yields no sentence, compress_by_ratio returns the
\* input text unchanged, reports 0 kept of 0, and never calls the vectorizer.
C7_EmptyInputUnchanged ==
    (sOut # NoResult /\ SentenceCount(sIn.text) = 0) =>
        /\ sOut.compressed_text = sIn.text
        /\ sOut.sentences_kept = 0
        /\ sOut.sentences_total = 0
        /\ ~sOut.vectorized

\* a text of blank chunks only has been summarized
C7_Witness ==
    /\ sOut # NoResult
    /\ Len(sIn.text) >= 2
    /\ SentenceCount(sIn.text) = 0
    /\ sOut.path = "empty"

\* the sentences of the input text, in order
InputSentences == SelectSeq(sIn.text, LAMBDA c : c # Blank)

\* K holds the top sentences by score, the lower index winning among equals
IsTopByScore(K, sentences) ==
    \A i \in K : \A j \in (1..Len(sentences)) \ K :
        \/ sentences[j].score < sentences[i].score
        \/ sentences[j].score = sentences[i].score /\ i < j

\* out is the sentences at the indices of K, in input order
IsSelection(out, K, sentences) ==
    /\ Len(out) = Cardinality(K)
    /\ \A k \in 1..Len(out) :
          \E i \in K : /\ Cardinality({j \in K : j < i}) = k - 1
                       /\ out[k] = sentences[i]

\* C26: on the TF-IDF path the kept set is the top target sentences by
\* score, the lower original index preferred among sentences of equal score;
\* no sentence outside the kept set has a strictly higher score than a kept
\* sentence.
C26_TopByScoreStable ==
    (sOut # NoResult /\ sOut.path = "tfidf") =>
        \E K \in SUBSET (1..Len(InputSentences)) :
            /\ Cardinality(K) = sOut.sentences_kept
            /\ IsTopByScore(K, InputSentences)
            /\ IsSelection(sOut.compressed_text, K, InputSentences)

\* two sentences of equal top score and different length compete for one
\* place: the earlier one is kept, the later one is not
C26_Witness ==
    /\ sOut # NoResult
    /\ sOut.path = "tfidf"
    /\ sOut.sentences_kept = 1
    /\ Len(InputSentences) = 3
    /\ InputSentences[1].score < InputSentences[2].score
    /\ InputSentences[2].score = InputSentences[3].score
    /\ InputSentences[2].len # InputSentences[3].len
    /\ sOut.compressed_text = <<InputSentences[2]>>

(***************************************************************************)
(* Claims about the history compressor (SpecHist).                         *)
(***************************************************************************)
\* the history held by the returned compressed_content
ReturnedHistory ==
    IF hOut.form = "list" THEN hOut.result.compressed_content
    ELSE hOut.result.compressed_content.hist

HasUser(hist) == \E i \in 1..Len(hist) : hist[i].role = "user"

\* C8: a history whose total estimated tokens are <= preserve_tokens is
\* returned byte-identical (role, text and timestamp of every entry) with
\* reported ratio 1.0, as a role/message list and as a HISTORY section.
C8_NoOpByteIdentical ==
    (hOut # NoResult /\ JsonTokens(hIn.hist) <= hIn.preserve) =>
        /\ ReturnedHistory = hIn.hist
        /\ hOut.result.compression_ratio = One

\* C9: if some entry at an index >= B has role "user", the final split is
\* the smallest such index, whatever the roles of the entries before B.
C9_ForwardUserWins ==
    (hOut # NoResult /\ hOut.result.tentative >= 0) =>
        LET B     == hOut.result.tentative
            users == {i \in B..(Len(hIn.hist) - 1) : hIn.hist[i + 1].role = "user"}
        IN  users # {} =>
                /\ hOut.result.final \in users
                /\ \A j \in users : hOut.result.final <= j

\* C10: when the input history has an entry with role "user" and the
\* compressor does not return the history unchanged, the first entry of the
\* preserved tail has role "user".
C10_TailStartsAtUser ==
    (hOut # NoResult /\ hOut.result.message = "completed" /\ HasUser(hIn.hist)) =>
        LET n     == Len(hIn.hist)
            final == hOut.result.final
            out   == ReturnedHistory
        IN  /\ final < n
            /\ hIn.hist[final + 1].role = "user"
            /\ Len(out) >= n - final
            /\ out[Len(out) - (n - final) + 1].role = "user"

\* the role-aware refinement moved the split off the tentative boundary
C10_Witness ==
    /\ hOut # NoResult
    /\ hOut.result.message = "completed"
    /\ HasUser(hIn.hist)
    /\ hOut.result.final > hOut.result.tentative
    /\ hOut.form = "markup"

\* the entries the result holds after the compressed head: the last
\* (n - final) entries of the returned history
ReturnedTail ==
    LET out == ReturnedHistory
        k   == Len(hIn.hist) - hOut.result.final
    IN  SubSeq(out, Len(out) - k + 1, Len(out))

SameMessage(a, b) == a.role = b.role /\ a.cost = b.cost

\* C11: applied to a non-empty history whose total tokens exceed
\* preserve_tokens, the compressor preserves a non-empty tail: the last input
\* entry is the last entry of the result, also when that entry alone costs
\* more than preserve_tokens and no entry has role "user".
C11_LastEntryPreserved ==
    (hOut # NoResult /\ hIn.hist # <<>> /\ JsonTokens(hIn.hist) > hIn.preserve) =>
        LET out == ReturnedHistory
        IN  /\ out # <<>>
            /\ hOut.result.final < Len(hIn.hist)
            /\ SameMessage(out[Len(out)], hIn.hist[Len(hIn.hist)])

\* C12: every entry of the tail H[split:) is in the result verbatim (role,
\* message text and timestamp) and in the same order, after the compressed
\* head, in the list form and in the re-rendered markup form.
C12_TailVerbatim ==
    (hOut # NoResult /\ hOut.result.message = "completed") =>
        /\ Len(ReturnedHistory) >= Len(hIn.hist) - hOut.result.final
        /\ ReturnedTail = Drop(hIn.hist, hOut.result.final)

\* floor and ceiling of n * pct / 100, stated without the code's division
FloorPct(n, pct) == CHOOSE k \in 0..n : 100 * k <= n * pct /\ 100 * (k + 1) > n * pct
CeilPct(n, pct)  == CHOOSE k \in 0..n : 100 * k >= n * pct /\ 100 * (k - 1) < n * pct

\* the result is the first keep entries of the head (role and message), then
\* the tail
HeadReplacedByFirst(keep) ==
    LET out  == ReturnedHistory
        n    == Len(hIn.hist)
        head == Take(hIn.hist, hOut.result.final)
    IN  /\ Len(out) = keep + (n - hOut.result.final)
        /\ keep <= Len(head)
        /\ \A i \in 1..keep : SameMessage(out[i], head[i])

FallbackUsed ==
    /\ hOut # NoResult
    /\ hOut.result.message = "completed"
    /\ hOut.llm # "ok"

C14_NoSuccessAfterError ==
    (hOut # NoResult /\ hOut.llm = "fail" /\ hOut.result.path = "truncate") =>
        hOut.result.success # "true"

\* summed cost of the entries [b, end) of the input history
TailCost(b) ==
    SumSeq([i \in 1..(Len(hIn.hist) - b) |-> hIn.hist[b + i].cost])

SplitComputed == hOut # NoResult /\ hOut.result.tentative >= 0

\* C23: the tentative boundary B is the smallest index reached by
\* accumulating entries from the end backward with running cost
\* <= preserve_tokens: the summed cost of entries [B, end) is
\* <= preserve_tokens, and either B = 0 or adding entry B-1 exceeds it.
C23_TentativeBoundary ==
    SplitComputed =>
        LET B == hOut.result.tentative
        IN  /\ B \in 0..Len(hIn.hist)
            /\ TailCost(B) <= hIn.preserve
            /\ (B = 0 \/ TailCost(B - 1) > hIn.preserve)

\* a boundary strictly inside the history: two entries fit, the third from
\* the end does not
C23_Witness ==
    /\ SplitComputed
    /\ hOut.result.tentative >= 1
    /\ hOut.result.tentative = Len(hIn.hist) - 2
    /\ TailCost(hOut.result.tentative) = hIn.preserve

UsersIn(lo, hi) == {i \in lo..hi : hIn.hist[i + 1].role = "user"}

\* C24: if no entry at an index >= B has role "user", the split index is
\* the largest index below B whose entry has role "user"; if no entry of the
\* history has role "user", the split index stays at B.
C24_BackwardUserSplit ==
    (SplitComputed
       /\ UsersIn(hOut.result.tentative, Len(hIn.hist) - 1) = {}) =>
        LET B     == hOut.result.tentative
            below == UsersIn(0, B - 1)
        IN  IF below = {}
            THEN hOut.result.final = B
            ELSE /\ hOut.result.final \in below
                 /\ \A j \in below : j <= hOut.result.final

\* no user entry in the provisional tail, two user entries before it: the
\* split moves back to the later of the two
C24_Witness ==
    /\ SplitComputed
    /\ UsersIn(hOut.result.tentative, Len(hIn.hist) - 1) = {}
    /\ Cardinality(UsersIn(0, hOut.result.tentative - 1)) >= 2
    /\ hOut.result.final < hOut.result.tentative
    /\ hOut.result.final > 0

\* the returned history is front followed by the tail H[final, end): role
\* and message of every entry, whole items in the list form
FrontThenTail(front) ==
    LET out  == ReturnedHistory
        tail == Drop(hIn.hist, hOut.result.final)
    IN  /\ Len(out) = Len(front) + Len(tail)
        /\ \A i \in 1..Len(front) : SameMessage(out[i], front[i])
        /\ \A i \in 1..Len(tail) : SameMessage(out[Len(front) + i], tail[i])
        /\ (hOut.form = "list") => out = front \o tail

\* C25: when the collaborator call of the history stage succeeds, the
\* result is exactly one synthesized entry with role "system" followed by
\* the tail; when the call raises, the result is the truncated head followed
\* by the tail, and the stage returns a result (no exception escapes).
C25_SummaryOrTruncatedHead ==
    (hOut # NoResult /\ hOut.result.calls = 1) =>
        LET head == Take(hIn.hist, hOut.result.final)
        IN  /\ hOut.result.message = "completed"
            /\ (hOut.llm = "ok") =>
                   /\ ReturnedHistory # <<>>
                   /\ ReturnedHistory[1].role = "system"
                   /\ FrontThenTail(<<ReturnedHistory[1]>>)
            /\ (hOut.llm = "fail") =>
                   \E k \in 1..Len(head) :
                       /\ k = Len(ReturnedHistory) - (Len(hIn.hist) - hOut.result.final)
                       /\ FrontThenTail(Take(head, k))

\* a successful call replaced a head of three entries by one system entry in
\* front of a non-empty tail
C25_Witness ==
    /\ hOut # NoResult
    /\ hOut.result.calls = 1
    /\ hOut.llm = "ok"
    /\ hOut.result.final = 3
    /\ Len(hIn.hist) = 4
    /\ Len(ReturnedHistory) = 2

(***************************************************************************)
(* The service: main.py (/compress) and ContextCompressor.compress_content *)
(***************************************************************************)
MinContentLen == 50

ShortText == <<[len |-> 20, score |-> 1]>>
LongText  == <<[len |-> 40, score |-> 1], [len |-> 20, score |-> 2],
               [len |-> 40, score |-> 0]>>
MaxTokenSet == {6, 9}

\* CompressionRequest: the fields the handler reads.  text is the content
\* field; api_key tells whether openai_api_key is a non-blank string.
Requests ==
    {r \in [section : SectionNames, role : Roles, text : {ShortText, LongText},
            target_modules : {<<"all">>, <<"PLAN", "HISTORY">>},
            max_token : MaxTokenSet, use_tf_idf : BOOLEAN,
            use_history_compression : BOOLEAN,
            tf_idf_compression_ratio : {60},
            history_preserve_tokens : {1, 3},
            history_compression_ratio : {50},
            api_key : BOOLEAN] :
        /\ (r.section = "HISTORY") => r.role \in {"user", "assistant"}
        /\ (r.section # "HISTORY") => r.role = "system"
        /\ (r.section # "SUB_APP") => r.text = ShortText
        /\ (~r.use_history_compression \/ r.section # "HISTORY") =>
               r.history_preserve_tokens = 3
        /\ (r.target_modules # <<"all">>) =>
               (r.section = "PLAN" /\ ~r.use_tf_idf /\ ~r.use_history_compression)}

\* main.py lines 358-367: the config dict handed to compress_content.  The
\* value under 'target_modules' is request.section, a str, where
\* request.target_modules is a list of str; kind tells the two apart.
ConfigOf(r) ==
    [target_modules |-> [kind |-> "str", value |-> r.section],
     use_tf_idf |-> r.use_tf_idf,
     use_history_compression |-> r.use_history_compression,
     max_token |-> r.max_token,
     tf_idf_compression_ratio |-> r.tf_idf_compression_ratio,
     history_preserve_tokens |-> r.history_preserve_tokens,
     history_compression_ratio |-> r.history_compression_ratio]

\* compress_content line 96: config.get('target_modules', ['all']), the value
\* passed on to compress_text, to the prompt and to _compress_text_simple
TargetModulesOf(config) == config.target_modules

\* add_background_content_raw
AddBackground(d, text, ts) ==
    IF "BACKGROUND" \in {d.secs[i] : i \in 1..Len(d.secs)}
    THEN [d EXCEPT !.bg = Append(@, [cost |-> TextTokens(text), ts |-> ts])]
    ELSE d

\* add_plan_content_raw: number = count of <plan_iteration number=..> + 1
AddPlan(d, text, ts) ==
    IF "PLAN" \in {d.secs[i] : i \in 1..Len(d.secs)}
    THEN [d EXCEPT !.plan = Append(@, [number |-> Len(d.plan) + 1,
                                        cost |-> TextTokens(text), ts |-> ts])]
    ELSE d

\* add_subapp_content_raw
AddSubApp(d, text, ts) ==
    IF "SUB_APP" \in {d.secs[i] : i \in 1..Len(d.secs)}
    THEN [d EXCEPT !.agents = Append(@, [name |-> "agent", text |-> text, ts |-> ts])]
    ELSE d

\* add_history_content_raw
AddHistory(d, role, text, ts) ==
    IF "HISTORY" \in {d.secs[i] : i \in 1..Len(d.secs)}
    THEN [d EXCEPT !.hist = Append(@, [role |-> role, cost |-> TextTokens(text),
                                        ts |-> ts])]
    ELSE d

\* add_content_to_section, after initialize_context_file
AddContentToSection(file, r, ts) ==
    LET d == IF file = NoDoc THEN InitialDoc ELSE file
    IN  CASE r.section = "BACKGROUND" -> AddBackground(d, r.text, ts)
          [] r.section = "PLAN"       -> AddPlan(d, r.text, ts)
          [] r.section = "SUB_APP"    -> AddSubApp(d, r.text, ts)
          [] r.section = "HISTORY"    -> AddHistory(d, r.role, r.text, ts)
          [] OTHER                    -> d

\* compress_content line 100 (strict variant first)
WithinBudgetStrict(tokens, maxTokens) == tokens < maxTokens
WithinBudget(tokens, maxTokens) == tokens <= maxTokens

\* _compress_text_by_tf_idf on a parsable document: every agent whose
\* stripped content is longer than 50 characters is summarized; ET.tostring
\* writes the tree back without the <?xml ...?> declaration
CompressTextByTfIdf(d, pct) ==
    IF "SUB_APP" \notin {d.secs[i] : i \in 1..Len(d.secs)} THEN d
    ELSE [d EXCEPT
            !.decl = FALSE,
            !.agents = [i \in 1..Len(d.agents) |->
                IF TextLen(d.agents[i].text) > MinContentLen
                THEN [d.agents[i] EXCEPT
                        !.text = CompressByRatio(d.agents[i].text, pct, FALSE).compressed_text]
                ELSE d.agents[i]]]

\* _compress_sectional_history: the markup path needs '<HISTORY>' in the
\* text; otherwise the text goes to _compress_json_history, which returns it
\* as it is (below the threshold, or not a JSON list)
CompressSectionalHistory(d, preserve, pct, llm, summary) ==
    IF IsXmlContent(d) /\ d.hist # <<>>
    THEN CompressXmlHistory(d, preserve, pct, llm, summary)
    ELSE [compressed_content |-> d, original_tokens |-> CountTokens(d),
          compressed_tokens |-> CountTokens(d), compression_ratio |-> One,
          success |-> "absent", message |-> "not a JSON list",
          tentative |-> -1, final |-> -1, calls |-> 0, path |-> "noop"]

\* what the collaborator may answer in the main stage: a four-section
\* summary document, or a document that lacks sections
LlmSummaryDoc ==
    [decl |-> FALSE, secs |-> SectionOrder, bg |-> <<>>, plan |-> <<>>,
     agents |-> <<>>,
     hist |-> <<[role |-> "system", cost |-> 1, ts |-> 0]>>]
LlmPartialDoc ==
    [decl |-> FALSE, secs |-> <<"BACKGROUND", "HISTORY">>, bg |-> <<>>,
     plan |-> <<>>, agents |-> <<>>,
     hist |-> <<[role |-> "system", cost |-> 1, ts |-> 0]>>]
LlmDocs == {LlmSummaryDoc, LlmPartialDoc}

\* a four-section summary of d that keeps the latest plan iteration as it is
\* and drops the earlier ones
LlmKeepsLastPlan(d) ==
    [LlmSummaryDoc EXCEPT
        !.plan = IF d.plan = <<>> THEN <<>> ELSE <<d.plan[Len(d.plan)]>>]

\* the answers of the collaborator the model follows for an input d
LlmAnswers(d) == LlmDocs \cup {LlmKeepsLastPlan(d)}

MainCall(outcome) == [stage |-> "main", outcome |-> outcome]
HistoryCall(outcome) == [stage |-> "history", outcome |-> outcome]

\* compress_text with a client: target_tokens = int(tokens * compression_ratio)
\* with compression_ratio = max_token / original_tokens of the request.
\* outcome "ok": the collaborator answers output; "fail": the call raises
\* and the except clause at line 223 returns a dict without compressed_content.
CompressTextRetry(d, maxTokens, originalTokens, outcome, output) ==
    [has_content |-> outcome = "ok", compressed_content |-> output,
     calls |-> IF outcome = "ok" THEN <<MainCall(outcome)>>
               ELSE <<MainCall(outcome), MainCall(outcome)>>]
CompressText(d, maxTokens, originalTokens, outcome, output) ==
    LET tokens == CountTokens(d)
        target == (tokens * maxTokens) \div originalTokens
    IN  IF tokens <= target
        THEN [has_content |-> TRUE, compressed_content |-> d, calls |-> <<>>]
        ELSE IF outcome = "ok"
        THEN [has_content |-> TRUE, compressed_content |-> output,
              calls |-> <<MainCall(outcome)>>]
        ELSE [has_content |-> FALSE, compressed_content |-> d,
              calls |-> <<MainCall(outcome)>>]

\* _compress_text_simple: the text is returned when it fits; everything
\* after that return (lines 799-845) is indented into the same if block, so
\* for a text over the budget control reaches line 847 with
\* compressed_result unbound and the function raises UnboundLocalError
CompressTextSimple(d, maxTokens) ==
    IF CountTokens(d) <= maxTokens
    THEN [raised |-> FALSE, content |-> d]
    ELSE [raised |-> TRUE, content |-> d]

(***************************************************************************)
(* Specification SpecPack: _compress_text_simple applied to bounded texts. *)
(* A text is a sequence of lines; a line has a length in characters, is a  *)
(* complete markup element or not, and names a section or none.            *)
(***************************************************************************)
MaxLines == 3

PackLines ==
    [len : {10, 60}, markup : BOOLEAN, ref : {"HISTORY", "none"}]
PackBudgets == {0, 4, 9}
TargetModules == {{"all"}, {"HISTORY"}}

\* count_tokens of a text given as lines (one unit per 10 characters)
LinesTokens(lines) == SumSeq([i \in 1..Len(lines) |-> lines[i].len \div 10])

\* _compress_text_simple on a text given as lines: line 796 returns the text
\* when it fits; the line loop, the greedy re-adding and the truncation
\* (lines 799-845) sit in the same if block after that return and never
\* run, so neither target_modules nor the lines are looked at and a text
\* over the budget raises UnboundLocalError at line 847
CompressLinesSimple(lines, maxTokens, targetModules) ==
    IF LinesTokens(lines) <= maxTokens
    THEN [raised |-> FALSE, content |-> lines]
    ELSE [raised |-> TRUE, content |-> <<>>]

PackInputs ==
    [lines : SeqsUpTo(PackLines, MaxLines), budget : PackBudgets,
     target_modules : TargetModules]

InitPack ==
    /\ pIn \in PackInputs
    /\ pOut = NoResult
    /\ sIn = NoResult /\ sOut = NoResult
    /\ hIn = NoResult /\ hOut = NoResult
    /\ aIn = NoResult /\ aOut = NoResult
    /\ SvcInit

Pack ==
    /\ pOut = NoResult
    /\ pOut' = CompressLinesSimple(pIn.lines, pIn.budget, pIn.target_modules)
    /\ UNCHANGED <<pIn, sumVars, histVars, extrVars, svcVars, docVars>>

NextPack == Pack
SpecPack == InitPack /\ [][NextPack]_vars

(***************************************************************************)
(* Claims about the fallback packer (SpecPack).                            *)
(***************************************************************************)
\* C16: for every text and every budget >= 0 the fallback packer returns a
\* text whose estimated tokens are <= budget, or exceed it only by the
\* rounding of the single hard-truncation step (one token).
C16_PackerWithinBudget ==
    (pOut # NoResult) =>
        /\ ~pOut.raised
        /\ LinesTokens(pOut.content) <= pIn.budget + 1

\* a structural line: a complete markup element or a line under 50 characters
IsStructuralLine(l) == l.markup \/ l.len < 50

\* a line is eligible for removal when it is not structural and names one
\* of the priority sections, or the priority list is "all"
EligibleForRemoval(l, modules) ==
    /\ ~IsStructuralLine(l)
    /\ ("all" \in modules \/ l.ref \in modules)

\* C17: a non-structural line is eligible for removal exactly when it names
\* one of the priority sections, every non-structural line when the list is
\* "all"; the lines that are not eligible are always in the packer's result.
C17_NonEligibleKept ==
    (pOut # NoResult) =>
        /\ ~pOut.raised
        /\ \A i \in 1..Len(pIn.lines) :
              ~EligibleForRemoval(pIn.lines[i], pIn.target_modules) =>
                  \E j \in 1..Len(pOut.content) : pOut.content[j] = pIn.lines[i]

(***************************************************************************)
(* Specification SpecExtract: the extractive stage applied to documents    *)
(* with bounded SUB_APP sections, well-formed or not.                      *)
(***************************************************************************)
MaxAgents == 3

MidText == <<[len |-> 40, score |-> 1]>>
TwoText == <<[len |-> 20, score |-> 0], [len |-> 40, score |-> 2]>>

AgentEntries ==
    [name : {"agent"}, text : {ShortText, MidText, TwoText, LongText},
     ts : {0, 1}]

\* _compress_subapp_by_regex: every agent the pattern matches is rebuilt as
\* <agent name="N"><content>..</content></agent>, summarized when its
\* stripped content is longer than 50 characters; the other attributes of
\* the agent element are not written back, the rest of the text is kept
CompressSubappByRegex(d, pct) ==
    IF d.agents = <<>> THEN d
    ELSE [d EXCEPT
            !.agents = [i \in 1..Len(d.agents) |->
                [name |-> d.agents[i].name,
                 text |-> IF TextLen(d.agents[i].text) > MinContentLen
                          THEN CompressByRatio(d.agents[i].text, pct, FALSE).compressed_text
                          ELSE d.agents[i].text,
                 ts   |-> 0]]]

\* _compress_text_by_tf_idf with its except ET.ParseError clause: a text
\* that is not well-formed goes to the regex method
ExtractiveStage(d, pct, parses) ==
    IF parses THEN CompressTextByTfIdf(d, pct)
    ELSE CompressSubappByRegex(d, pct)

ExtractInputs ==
    [agents : SeqsUpTo(AgentEntries, MaxAgents), ratio : {60},
     parses : BOOLEAN]

InitExtract ==
    /\ aIn \in ExtractInputs
    /\ aOut = NoResult
    /\ sIn = NoResult /\ sOut = NoResult
    /\ hIn = NoResult /\ hOut = NoResult
    /\ pIn = NoResult /\ pOut = NoResult
    /\ SvcInit

Extract ==
    /\ aOut = NoResult
    /\ aOut' = ExtractiveStage([InitialDoc EXCEPT !.agents = aIn.agents],
                               aIn.ratio, aIn.parses)
    /\ UNCHANGED <<aIn, sumVars, histVars, packVars, svcVars, docVars>>

NextExtract == Extract
SpecExtract == InitExtract /\ [][NextExtract]_vars

(***************************************************************************)
(* Claims about the extractive stage (SpecExtract).                        *)
(***************************************************************************)
\* C19: every SUB_APP agent entry whose content is <= 50 characters is left
\* untouched, every entry with longer content is summarized on its own, and
\* the number and order of the agent entries is unchanged.
C19_AgentsOneByOne ==
    (aOut # NoResult) =>
        /\ Len(aOut.agents) = Len(aIn.agents)
        /\ \A i \in 1..Len(aIn.agents) :
              IF TextLen(aIn.agents[i].text) <= MinContentLen
              THEN aOut.agents[i] = aIn.agents[i]
              ELSE /\ aOut.agents[i].name = aIn.agents[i].name
                   /\ aOut.agents[i].text =
                        CompressByRatio(aIn.agents[i].text, aIn.ratio, FALSE).compressed_text

(***************************************************************************)
(* Specification SpecDoc: context.xml as a text.  main.py edits the file   *)
(* by string replacement and the compressor parses it with ElementTree.    *)
(* The text is the sequence of its markup tokens: the declaration, start   *)
(* tags, end tags, empty-element tags and appended entries.                *)
(***************************************************************************)
MaxAppends == 3

Decl        == [k |-> "decl"]
StartTag(n) == [k |-> "open", n |-> n]
EndTag(n)   == [k |-> "close", n |-> n]
EmptyTag(n) == [k |-> "empty", n |-> n]
EntryOf(ts) == [k |-> "entry", ts |-> ts]

InitialTextThree ==
    <<Decl, StartTag("context"), EmptyTag("BACKGROUND"), EmptyTag("PLAN"),
      EmptyTag("SUB_APP"), EndTag("context")>>

\* initialize_context_file: tree.write(..., xml_declaration=True) of a
\* context element with four childless sub-elements, each written <X />
InitialText ==
    <<Decl, StartTag("context"), EmptyTag("BACKGROUND"), EmptyTag("PLAN"),
      EmptyTag("SUB_APP"), EmptyTag("HISTORY"), EndTag("context")>>

Positions(text, tok) == {i \in 1..Len(text) : text[i] = tok}

\* add_*_content_raw: the entry goes in front of </X>; without </X> the tag
\* <X /> is replaced by <X>, the entry, </X>.  str.replace rewrites every
\* occurrence; the texts followed here hold each tag at most once.
AddContentRaw(text, section, ts) ==
    LET ends    == Positions(text, EndTag(section))
        empties == Positions(text, EmptyTag(section))
    IN  IF ends # {}
        THEN LET q == CHOOSE i \in ends : TRUE
             IN  SubSeq(text, 1, q - 1) \o <<EntryOf(ts)>> \o SubSeq(text, q, Len(text))
        ELSE IF empties # {}
        THEN LET q == CHOOSE i \in empties : TRUE
             IN  SubSeq(text, 1, q - 1)
                   \o <<StartTag(section), EntryOf(ts), EndTag(section)>>
                   \o SubSeq(text, q + 1, Len(text))
        ELSE text

\* ET.fromstring: the root element and its children in document order; a
\* child is an empty-element tag, or a start tag with the entries up to its
\* end tag
ParseText(text) ==
    LET rootPos  == CHOOSE i \in 1..Len(text) :
                        /\ text[i].k = "open"
                        /\ \A j \in 1..(i - 1) : text[j].k = "decl"
        endOf(p) == CHOOSE q \in (p + 1)..Len(text) :
                        /\ text[q] = EndTag(text[p].n)
                        /\ \A j \in (p + 1)..(q - 1) : text[j] # EndTag(text[p].n)
        starts   == {i \in (rootPos + 1)..Len(text) : text[i].k \in {"open", "empty"}}
        nth(k)   == CHOOSE i \in starts : Cardinality({j \in starts : j < i}) = k - 1
        child(p) == [name    |-> text[p].n,
                     entries |-> IF text[p].k = "empty" THEN <<>>
                                 ELSE SubSeq(text, p + 1, endOf(p) - 1)]
    IN  [root     |-> text[rootPos].n,
         children |-> [k \in 1..Cardinality(starts) |-> child(nth(k))]]

InitDoc ==
    /\ SvcInit
    /\ sIn = NoResult /\ sOut = NoResult
    /\ hIn = NoResult /\ hOut = NoResult
    /\ pIn = NoResult /\ pOut = NoResult
    /\ aIn = NoResult /\ aOut = NoResult

EntriesIn(text) == Cardinality({i \in 1..Len(text) : text[i].k = "entry"})

\* get_context_file_content on a user without a file: the file is created
GetContextFileContent ==
    /\ fText = NoText
    /\ fText' = InitialText
    /\ UNCHANGED <<fTree, sumVars, histVars, packVars, extrVars, svcVars>>

\* add_content_to_section: initialize_context_file, then the append
AddContentToFile ==
    /\ \E section \in SectionNames :
          LET text == IF fText = NoText THEN InitialText ELSE fText
          IN  /\ EntriesIn(text) < MaxAppends
              /\ fText' = AddContentRaw(text, section, EntriesIn(text) + 1)
    /\ UNCHANGED <<fTree, sumVars, histVars, packVars, extrVars, svcVars>>

\* the stored text is read and parsed (compressor.py line 380)
ParseContent ==
    /\ fText # NoText
    /\ fTree' = ParseText(fText)
    /\ UNCHANGED <<fText, sumVars, histVars, packVars, extrVars, svcVars>>

NextDoc == GetContextFileContent \/ AddContentToFile \/ ParseContent
SpecDoc == InitDoc /\ [][NextDoc]_vars

(***************************************************************************)
(* Claims about the stored text (SpecDoc).                                 *)
(***************************************************************************)
FourEmptySections ==
    [root     |-> "context",
     children |-> [i \in 1..4 |-> [name |-> SectionOrder[i], entries |-> <<>>]]]

\* C22: the freshly initialised document has the four sections BACKGROUND,
\* PLAN, SUB_APP, HISTORY, all empty, and serializing it and parsing it
\* back gives the same structure: four sections, same order, all empty.
C22_InitialRoundTrip ==
    (fText # NoText /\ EntriesIn(fText) = 0) =>
        /\ fText = InitialText
        /\ (fTree # NoResult) => fTree = FourEmptySections

\* the fresh file has been written, read back and parsed
C22_Witness ==
    /\ fText = InitialText
    /\ fTree # NoResult
    /\ Len(fTree.children) = 4

(***************************************************************************)
(* Specification Spec: /compress requests against one user's files.        *)
(* The handler runs to completion before the next request starts; pc       *)
(* follows it through compress_content stage by stage.                     *)
(***************************************************************************)
Init ==
    /\ SvcInit
    /\ sIn = NoResult /\ sOut = NoResult
    /\ hIn = NoResult /\ hOut = NoResult
    /\ pIn = NoResult /\ pOut = NoResult
    /\ aIn = NoResult /\ aOut = NoResult

\* main.py lines 327-367: append the request's entry, re-read the file, back
\* it up to before_compressed.xml, build the compressor and the config
Request ==
    /\ pc = "idle"
    /\ now < MaxRequests
    /\ \E r \in Requests :
          LET doc == AddContentToSection(ctxFile, r, now + 1)
          IN  /\ req' = r
              /\ ctxFile' = doc
              /\ content' = doc
              /\ beforeFile' = doc
              /\ processed' = doc
    /\ now' = now + 1
    /\ calls' = <<>>
    /\ stages' = <<>>
    /\ returned' = NoDoc
    /\ resp' = [status |-> "pending"]
    /\ pc' = "init"
    /\ UNCHANGED <<sumVars, histVars, packVars, extrVars, docVars>>

\* compress_content lines 94-107: the short-circuit on the token budget
InitStage ==
    /\ pc = "init"
    /\ IF WithinBudget(CountTokens(content), req.max_token)
       THEN /\ returned' = content
            /\ pc' = "write"
       ELSE /\ returned' = returned
            /\ pc' = "extract"
    /\ UNCHANGED <<ctxFile, beforeFile, req, content, processed, calls,
                   stages, resp, now, sumVars, histVars, packVars, extrVars, docVars>>

\* compress_content lines 110-112
ExtractStage ==
    /\ pc = "extract"
    /\ IF req.use_tf_idf /\ IsXmlContent(content)
       THEN /\ processed' = CompressTextByTfIdf(processed, req.tf_idf_compression_ratio)
            /\ stages' = Append(stages, "extract")
       ELSE UNCHANGED <<processed, stages>>
    /\ pc' = "history"
    /\ UNCHANGED <<ctxFile, beforeFile, req, content, calls, returned, resp,
                   now, sumVars, histVars, packVars, extrVars, docVars>>

\* compress_content lines 115-119
HistoryStage ==
    /\ pc = "history"
    /\ IF req.use_history_compression /\ IsXmlContent(content)
       THEN \E llm \in (IF req.api_key THEN {"ok", "fail"} ELSE {"none"}) :
              LET r == CompressSectionalHistory(processed,
                           req.history_preserve_tokens,
                           req.history_compression_ratio, llm, 1)
              IN  /\ processed' = r.compressed_content
                  /\ calls' = calls \o
                        (IF r.calls = 1 THEN <<HistoryCall(llm)>> ELSE <<>>)
                  /\ stages' = Append(stages, "history")
       ELSE UNCHANGED <<processed, calls, stages>>
    /\ pc' = "main"
    /\ UNCHANGED <<ctxFile, beforeFile, req, content, returned, resp, now,
                   sumVars, histVars, packVars, extrVars, docVars>>

\* compress_content lines 122-147.  With a client, compress_text catches the
\* failure of the collaborator call itself, so the except clause of lines
\* 135-139 is not entered by it.
MainStage ==
    /\ pc = "main"
    /\ IF req.api_key
       THEN \E outcome \in {"ok", "fail"}, output \in LlmAnswers(processed) :
              LET r == CompressText(processed, req.max_token,
                                    CountTokens(content), outcome, output)
              IN  /\ returned' = IF r.has_content THEN r.compressed_content
                                 ELSE processed
                  /\ calls' = calls \o r.calls
                  /\ stages' = Append(stages, "llm")
                  /\ pc' = "write"
       ELSE LET r == CompressTextSimple(processed, req.max_token)
            IN  /\ stages' = Append(stages, "fallback")
                /\ calls' = calls
                /\ IF r.raised
                   THEN /\ pc' = "raised"
                        /\ returned' = returned
                   ELSE /\ pc' = "write"
                        /\ returned' = r.content
    /\ UNCHANGED <<ctxFile, beforeFile, req, content, processed, resp, now,
                   sumVars, histVars, packVars, extrVars, docVars>>

RespondKeepsFile ==
    /\ pc = "write"
    /\ ctxFile' = ctxFile
    /\ resp' = [status |-> "ok",
                success |-> TRUE,
                original_content |-> content,
                compressed_content |-> returned,
                token_count_original |-> CountTokens(content),
                token_count_compressed |-> CountTokens(returned)]
    /\ pc' = "idle"
    /\ req' = NoRequest
    /\ content' = NoDoc
    /\ processed' = NoDoc
    /\ returned' = NoDoc
    /\ calls' = <<>>
    /\ stages' = <<>>
    /\ UNCHANGED <<beforeFile, now, sumVars, histVars, packVars, extrVars, docVars>>

\* main.py lines 372-396: overwrite context.xml and answer
Respond ==
    /\ pc = "write"
    /\ ctxFile' = returned
    /\ resp' = [status |-> "ok",
                success |-> TRUE,
                original_content |-> content,
                compressed_content |-> returned,
                token_count_original |-> CountTokens(content),
                token_count_compressed |-> CountTokens(returned)]
    /\ pc' = "idle"
    /\ req' = NoRequest
    /\ content' = NoDoc
    /\ processed' = NoDoc
    /\ returned' = NoDoc
    /\ calls' = <<>>
    /\ stages' = <<>>
    /\ UNCHANGED <<beforeFile, now, sumVars, histVars, packVars, extrVars, docVars>>

FailRollsBack ==
    /\ pc = "raised"
    /\ resp' = [status |-> "error500"]
    /\ pc' = "idle"
    /\ req' = NoRequest
    /\ content' = NoDoc
    /\ processed' = NoDoc
    /\ returned' = NoDoc
    /\ calls' = <<>>
    /\ stages' = <<>>
    /\ ctxFile' = InitialDoc
    /\ UNCHANGED <<beforeFile, now, sumVars, histVars, packVars, extrVars, docVars>>

\* main.py lines 398-400: the exception becomes an HTTP 500 answer
Fail ==
    /\ pc = "raised"
    /\ resp' = [status |-> "error500"]
    /\ pc' = "idle"
    /\ req' = NoRequest
    /\ content' = NoDoc
    /\ processed' = NoDoc
    /\ returned' = NoDoc
    /\ calls' = <<>>
    /\ stages' = <<>>
    /\ UNCHANGED <<ctxFile, beforeFile, now, sumVars, histVars, packVars, extrVars, docVars>>

Next ==
    \/ Request
    \/ InitStage
    \/ ExtractStage
    \/ HistoryStage
    \/ MainStage
    \/ Respond
    \/ Fail

Spec == Init /\ [][Next]_vars

(***************************************************************************)
(* Claims about the orchestrator (Spec).                                   *)
(***************************************************************************)
InCompress == pc \in {"extract", "history", "main", "write", "raised"}

CallsOf(stage) == {i \in 1..Len(calls) : calls[i].stage = stage}

MainCallFailed ==
    \E i \in 1..Len(calls) : calls[i].stage = "main" /\ calls[i].outcome = "fail"

\* C1: compress_content always returns a document and never raises to its
\* caller, also when the document is still over max_token when the fallback
\* packer is reached.
C1_NeverRaises == pc # "raised"

\* C2: when the estimated tokens of the input document are <= max_token,
\* compress_content returns the input unchanged and runs no stage: no
\* summarization, no history compression, no collaborator call, no packing.
C2_WithinBudgetNoOp ==
    (InCompress /\ CountTokens(content) <= req.max_token) =>
        /\ pc = "write"
        /\ returned = content
        /\ processed = content
        /\ stages = <<>>
        /\ calls = <<>>

\* a document exactly at the budget, with every optional stage enabled, a
\* collaborator configured and content every stage would change
C2_Witness ==
    /\ pc = "write"
    /\ CountTokens(content) = req.max_token
    /\ req.use_tf_idf /\ req.use_history_compression /\ req.api_key
    /\ content.agents # <<>>
    /\ content.hist # <<>>
    /\ returned = content

\* C3: the stored document always holds exactly the four sections
\* BACKGROUND, PLAN, SUB_APP, HISTORY, once each and in that order, after
\* any sequence of appends and compressions.
C3_FourSections == (ctxFile # NoDoc) => ctxFile.secs = SectionOrder

\* C4: when the collaborator call of the main stage fails, the returned
\* document is the output of the fallback packer applied to the document as
\* it was before the main stage.
C4_FailureFallsBack ==
    (pc = "write" /\ MainCallFailed) =>
        /\ stages # <<>>
        /\ stages[Len(stages)] = "fallback"

\* C5: one compress_content invocation makes at most one outbound call to
\* the generative collaborator, in every configuration.
C5_AtMostOneCall == Len(calls) <= 1

\* C5 as amended: at most one outbound call per stage (one by the history
\* stage, one by the main stage, in that order), hence at most two per
\* invocation, and none without a configured collaborator.
C5_AtMostOneCallPerStage ==
    /\ Cardinality(CallsOf("history")) <= 1
    /\ Cardinality(CallsOf("main")) <= 1
    /\ Len(calls) <= 2
    /\ \A i \in CallsOf("history"), j \in CallsOf("main") : i < j
    /\ \A i \in 1..Len(calls) : calls[i].stage \in {"history", "main"}
    /\ (req # NoRequest /\ ~req.api_key) => calls = <<>>

\* both stages have called the collaborator in one invocation
C5_Witness ==
    /\ pc = "write"
    /\ Len(calls) = 2
    /\ calls[1].stage = "history"
    /\ calls[2].stage = "main"

\* estimated tokens of the HISTORY entries of a document
HistorySectionTokens(d) == CountTokens(d) - CountTokens([d EXCEPT !.hist = <<>>])

\* C15: end to end without a collaborator and with use_history_compression,
\* for a document whose HISTORY section alone reaches max_token and exceeds
\* history_preserve_tokens, compress_content returns a document whose
\* estimated tokens are <= those of the input.
C15_HistoryRunNotLarger ==
    ( /\ pc \in {"write", "raised"}
      /\ ~req.api_key
      /\ req.use_history_compression
      /\ HistorySectionTokens(content) >= req.max_token
      /\ HistorySectionTokens(content) > req.history_preserve_tokens ) =>
        /\ pc = "write"
        /\ CountTokens(returned) <= CountTokens(content)

\* compress_content has ended over the budget: with an exception raised on
\* a document over max_token, or with a returned document over max_token
OverBudgetOutcome ==
    \/ pc = "raised"
    \/ pc = "write" /\ CountTokens(returned) > req.max_token

\* the fields of the answer that tell an outcome from another, beside the
\* documents and their token counts
ResponseFlags(r) == [f \in (DOMAIN r) \ {"original_content", "compressed_content",
                                         "token_count_original",
                                         "token_count_compressed"} |-> r[f]]

WithinBudgetFlags == [status |-> "ok", success |-> TRUE]

\* C18: when the document is still over the budget after all stages, the
\* request ends with a successful result that carries a flag telling the
\* budget was not met: it is not an exception, and it differs from the
\* result of a request that met the budget.
C18_BudgetUnmetFlagged ==
    [][(OverBudgetOutcome /\ pc' = "idle") =>
          /\ resp'.status = "ok"
          /\ ResponseFlags(resp') # WithinBudgetFlags]_vars

\* the stages run so far are in the order extractive, history, main
StagesInOrder(st) ==
    \A i, j \in 1..Len(st) :
        i < j => /\ st[i] \in {"extract", "history"}
                 /\ st[i] = "history" => st[j] \in {"llm", "fallback"}
                 /\ st[j] # "extract"

\* C20: the stages run in the order extractive, history, main, and the run
\* is terminal on first success: once a stage has brought the document to
\* <= max_token, no later stage modifies it and the collaborator is not
\* called afterwards.
C20_TerminalOnFirstSuccess ==
    [][ /\ (pc' \in {"extract", "history", "main", "write", "raised"}) =>
               StagesInOrder(stages')
        /\ (pc \in {"history", "main"} /\ stages # <<>>
              /\ CountTokens(processed) <= req.max_token) =>
               /\ processed' = processed
               /\ calls' = calls
               /\ (pc' = "write") => returned' = processed ]_vars

\* C21: after any sequence of PLAN appends, appends to other sections and
\* compressions, the iteration numbers of the PLAN entries of the stored
\* document are pairwise distinct and strictly increasing in document
\* order.
C21_PlanNumbersIncrease ==
    (ctxFile # NoDoc) =>
        \A i, j \in 1..Len(ctxFile.plan) :
            i < j => ctxFile.plan[i].number < ctxFile.plan[j].number

\* C27: the priority sections used by a /compress request's compression
\* (the target_modules given to compress_content, to the collaborator prompt
\* and to the fallback packer) are the list of section names of the
\* request's target_modules field.
C27_TargetModulesFromRequest ==
    (pc # "idle") =>
        LET tm == TargetModulesOf(ConfigOf(req))
        IN  /\ tm.kind = "list"
            /\ tm.value = req.target_modules

\* the entries of section name in document d
EntriesOfSection(d, name) ==
    CASE name = "BACKGROUND" -> d.bg
      [] name = "PLAN"       -> d.plan
      [] name = "SUB_APP"    -> d.agents
      [] name = "HISTORY"    -> d.hist

\* d holds the entry request r appended at time ts, last in its section
\* (the append does nothing on a text without that section)
AppendedEntryPresent(d, r, ts) ==
    (r.section \in {d.secs[i] : i \in 1..Len(d.secs)}) =>
        LET es == EntriesOfSection(d, r.section)
        IN  es # <<>> /\ es[Len(es)].ts = ts

\* C28: after every /compress request that returns successfully,
\* before_compressed.xml is the document as it was after this request's
\* append and before compression, context.xml is the compressed_content of
\* the response, and token_count_original / token_count_compressed are the
\* estimator's counts of exactly those two texts.
C28_FilesMatchResponse ==
    /\ (pc = "write") =>
          /\ beforeFile = content
          /\ AppendedEntryPresent(content, req, now)
    /\ (pc = "idle" /\ resp.status = "ok") =>
          /\ beforeFile = resp.original_content
          /\ ctxFile = resp.compressed_content
          /\ resp.token_count_original = CountTokens(beforeFile)
          /\ resp.token_count_compressed = CountTokens(ctxFile)

\* a request has returned a document smaller than the one it backed up
C28_Witness ==
    /\ pc = "idle"
    /\ resp.status = "ok"
    /\ ctxFile # beforeFile
    /\ ctxFile = resp.compressed_content
    /\ resp.token_count_compressed < resp.token_count_original

\* C29: if compress_content raises, the request ends with an HTTP 500
\* error and the stored state is not rolled back: context.xml holds the
\* document with this request's entry appended and uncompressed, and
\* before_compressed.xml holds the same text.
C29_NoRollbackOnError ==
    [][(pc = "raised") =>
          /\ AppendedEntryPresent(content, req, now)
          /\ pc' = "idle"
          /\ resp'.status = "error500"
          /\ ctxFile' = content
          /\ beforeFile' = content]_vars

\* a request has ended in HTTP 500 and both files hold its appended entry
C29_Witness ==
    /\ pc = "idle"
    /\ resp.status = "error500"
    /\ ctxFile = beforeFile
    /\ ctxFile.bg # <<>>
    /\ ctxFile.bg[Len(ctxFile.bg)].ts = now

OtherSections(d) == SelectSeq(d.secs, LAMBDA x : x # "HISTORY")

\* C30: the history stage changes only the HISTORY section: the BACKGROUND,
\* PLAN and SUB_APP sections of the document _compress_sectional_history
\* returns are identical to those of its input, in every path (no-op,
\* truncation fallback, collaborator summary).
C30_HistoryStageFrame ==
    [][(pc = "history") =>
          /\ processed'.bg = processed.bg
          /\ processed'.plan = processed.plan
          /\ processed'.agents = processed.agents
          /\ processed'.decl = processed.decl
          /\ OtherSections(processed') = OtherSections(processed)]_vars

\* the history stage has rewritten the HISTORY section of a document whose
\* BACKGROUND and PLAN sections hold entries
C30_Witness ==
    /\ pc = "main"
    /\ stages # <<>>
    /\ stages[Len(stages)] = "history"
    /\ processed.hist # content.hist
    /\ processed.bg # <<>>
    /\ processed.plan # <<>>
    /\ processed.bg = content.bg
    /\ processed.plan = content.plan

====
